---- MODULE Spec2Model ----
(***************************************************************************)
(* SafeWard: telemetry ingestion (api/receive.ts), query (api/readings.ts) *)
(* and the dashboard's polling reconciler / alert ledger (App.tsx, latest  *)
(* revision in src/unnamed/part_007).                                      *)
(*                                                                         *)
(* Measurements are fixed-point: an integer v stands for v/100, so that    *)
(* value.toFixed(1) and the 1.2 * warningThreshold comparison are exact.   *)
(* Time is in milliseconds.  "undefined" stands for a JS undefined string  *)
(* field and Missing for a numeric field that is absent or not a number.   *)
(***************************************************************************)
EXTENDS Integers, Sequences, FiniteSets, TLC

VARIABLES
  now,          \* wall clock, Date.now()
  store,        \* Redis value under READINGS_KEY
  wpc,          \* position of each POST handler invocation
  wreading,     \* the handler's `reading`
  wlist,        \* the handler's local `readings`
  wstatus,      \* last HTTP status each handler returned (0: none yet)
  accepted,     \* readings echoed in a 200 response, in completion order
  posts,        \* number of POST requests received so far
  qsnap,        \* the GET handler's `readings` right after redis.get
  qresp,        \* last response of a direct GET /api/readings
  nextTick,     \* time at which setInterval fires next
  ticks,        \* number of fetchSensorData calls started so far
  fetches,      \* fetchSensorData invocations suspended at an await
  readings,     \* React state `readings`
  alerts,       \* React state `alerts`
  isConnected,  \* React state `isConnected`
  sirens,       \* number of playAlertSound() calls
  popups,       \* number of `new Notification(...)` calls
  granted,      \* Notification.permission === 'granted'
  evalLog       \* per reading of the last checkThresholds pass: its severity

serverVars == <<store, wpc, wreading, wlist, wstatus, accepted, posts, qsnap, qresp>>
clientVars == <<nextTick, ticks, fetches, readings, alerts, isConnected,
                sirens, popups, granted, evalLog>>
vars == <<now, serverVars, clientVars>>

----------------------------------------------------------------------------
(* Bounds of the model *)

StartTime == 20000
MaxPosts == 2
MaxNow == 30000
MaxInflight == 2

(* Program constants *)

MAX_READINGS == 500
QUERY_DEFAULT_LIMIT == 100
QUERY_HARD_CAP == 500
CLIENT_LIMIT == 100
POLL_INTERVAL_MS == 2000
DEBOUNCE_MS == 10000
HISTORY_LIMIT == 100
OFFLINE_THRESHOLD_MS == 10000

Missing == 0 - 1
Undefined == "undefined"

Min(a, b) == IF a < b THEN a ELSE b

\* Array.prototype.slice(-n) for n > 0
SliceLast(s, n) == IF Len(s) <= n THEN s ELSE SubSeq(s, Len(s) - n + 1, Len(s))

Truthy(str) == str # Undefined /\ str # ""
IsNumber(x) == x # Missing

----------------------------------------------------------------------------
(* api/receive.ts *)

Writers == {"w1", "w2"}

\* `data.error === undefined` in place of `!data.error`
ValidBodyAnyError(data) ==
  ~ ( data.error = Undefined /\
      ( ~IsNumber(data.methane) \/ ~IsNumber(data.temperature) \/ ~IsNumber(data.humidity) ) )

\* the validation at the top of the POST branch
ValidBody(data) ==
  ~ ( ~Truthy(data.error) /\
      ( ~IsNumber(data.methane) \/ ~IsNumber(data.temperature) \/ ~IsNumber(data.humidity) ) )

NumOrZero(x) == IF IsNumber(x) /\ x # 0 THEN x ELSE 0

MakeReading(data, t) ==
  [ device_id   |-> IF Truthy(data.device_id) THEN data.device_id ELSE "esp32-001",
    location    |-> IF Truthy(data.location) THEN data.location ELSE "Ward A",
    methane     |-> NumOrZero(data.methane),
    temperature |-> NumOrZero(data.temperature),
    humidity    |-> NumOrZero(data.humidity),
    timestamp   |-> IF IsNumber(data.timestamp) /\ data.timestamp # 0 THEN data.timestamp ELSE t,
    error       |-> data.error ]

\* slice(0, MAX_READINGS) in place of slice(-MAX_READINGS)
TrimKeepsHead(list) == IF Len(list) > MAX_READINGS THEN SubSeq(list, 1, MAX_READINGS) ELSE list

\* if (readings.length > MAX_READINGS) readings = readings.slice(-MAX_READINGS)
TrimToMax(list) == IF Len(list) > MAX_READINGS THEN SliceLast(list, MAX_READINGS) ELSE list

\* the push without the trim
PushOnly(list, reading) == Append(list, reading)

\* readings.push(reading) followed by the trim
PushAndTrim(list, reading) == TrimToMax(Append(list, reading))

\* request arrives: validation, 400 or construction of `reading`
PostReceive(w, data) ==
  /\ wpc[w] = "idle"
  /\ posts < MaxPosts
  /\ posts' = posts + 1
  /\ IF ValidBody(data)
       THEN /\ wreading' = [wreading EXCEPT ![w] = MakeReading(data, now)]
            /\ wpc' = [wpc EXCEPT ![w] = "get"]
            /\ wstatus' = [wstatus EXCEPT ![w] = 0]
       ELSE /\ wstatus' = [wstatus EXCEPT ![w] = 400]
            /\ UNCHANGED <<wreading, wpc>>
  /\ UNCHANGED <<now, store, wlist, accepted, qsnap, qresp, clientVars>>

\* await redis.get(...) resolves; push and trim run on the local copy
PostGet(w) ==
  /\ wpc[w] = "get"
  /\ wlist' = [wlist EXCEPT ![w] = PushAndTrim(store, wreading[w])]
  /\ wpc' = [wpc EXCEPT ![w] = "set"]
  /\ UNCHANGED <<now, store, wreading, wstatus, accepted, posts, qsnap, qresp, clientVars>>

\* await redis.set(...) resolves; 200 with the reading
PostSet(w) ==
  /\ wpc[w] = "set"
  /\ store' = wlist[w]
  /\ accepted' = Append(accepted, wreading[w])
  /\ wstatus' = [wstatus EXCEPT ![w] = 200]
  /\ wpc' = [wpc EXCEPT ![w] = "idle"]
  /\ wlist' = [wlist EXCEPT ![w] = <<>>]
  /\ UNCHANGED <<now, wreading, posts, qsnap, qresp, clientVars>>

\* a Redis call rejects: catch block, 500
PostFail(w) ==
  /\ wpc[w] \in {"get", "set"}
  /\ wstatus' = [wstatus EXCEPT ![w] = 500]
  /\ wpc' = [wpc EXCEPT ![w] = "idle"]
  /\ wlist' = [wlist EXCEPT ![w] = <<>>]
  /\ UNCHANGED <<now, store, wreading, accepted, posts, qsnap, qresp, clientVars>>

\* a POST handled from validation to response with no other request in between:
\* PostReceive, PostGet and PostSet in one step
PostHandled(w, data) ==
  /\ wpc[w] = "idle"
  /\ posts < MaxPosts
  /\ posts' = posts + 1
  /\ IF ValidBody(data)
       THEN /\ wreading' = [wreading EXCEPT ![w] = MakeReading(data, now)]
            /\ store' = PushAndTrim(store, MakeReading(data, now))
            /\ accepted' = Append(accepted, MakeReading(data, now))
            /\ wstatus' = [wstatus EXCEPT ![w] = 200]
       ELSE /\ wstatus' = [wstatus EXCEPT ![w] = 400]
            /\ UNCHANGED <<wreading, store, accepted>>
  /\ UNCHANGED <<now, wpc, wlist, qsnap, qresp, clientVars>>

----------------------------------------------------------------------------
(* api/readings.ts *)

\* readings.filter(r => r.location === location) and r.timestamp > sinceTime
SelectSeqBy(s, loc, since) ==
  SelectSeq(s, LAMBDA r : (loc = Undefined \/ r.location = loc) /\ (since = Missing \/ r.timestamp > since))

\* Math.min(parseInt(limit) || 100, 500); Missing stands for a non-numeric limit
LimitNum(limit) == Min(IF limit = Missing \/ limit = 0 THEN QUERY_DEFAULT_LIMIT ELSE limit, QUERY_HARD_CAP)

\* slice(-limitNum): -0 is 0 only when limitNum is 0, which LimitNum excludes;
\* a negative limitNum k makes slice(-k) = slice(|k|), dropping the first |k|
SliceNeg(s, n) ==
  IF n > 0 THEN SliceLast(s, n)
  ELSE IF 0 - n >= Len(s) THEN <<>> ELSE SubSeq(s, (0 - n) + 1, Len(s))

QueryResult(snapshot, q) ==
  LET filtered == SelectSeqBy(snapshot,
                              IF Truthy(q.location) THEN q.location ELSE Undefined,
                              q.since)
      out == SliceNeg(filtered, LimitNum(q.limit))
  IN  [ok |-> TRUE, count |-> Len(out), readings |-> out]

\* a GET that is not the dashboard's
DirectQuery(q) ==
  /\ qsnap' = store
  /\ qresp' = QueryResult(store, q)
  /\ UNCHANGED <<now, store, wpc, wreading, wlist, wstatus, accepted, posts, clientVars>>

----------------------------------------------------------------------------
(* constants.ts *)

Hundredths(n) == n * 100

Config(id, type, unit, w, loc) ==
  [id |-> id, type |-> type, unit |-> unit, warningThreshold |-> Hundredths(w), location |-> loc]

SENSOR_CONFIGS ==
  << Config("wa-temp", "TEMPERATURE", "C", 26, "Ward A"),
     Config("wa-hum", "HUMIDITY", "%", 60, "Ward A"),
     Config("wa-meth", "METHANE", "ppm", 200, "Ward A"),
     Config("wb-temp", "TEMPERATURE", "C", 26, "Ward B"),
     Config("wb-hum", "HUMIDITY", "%", 60, "Ward B"),
     Config("wb-meth", "METHANE", "ppm", 200, "Ward B"),
     Config("wc-temp", "TEMPERATURE", "C", 26, "Ward C"),
     Config("wc-hum", "HUMIDITY", "%", 60, "Ward C"),
     Config("wc-meth", "METHANE", "ppm", 200, "Ward C") >>

ConfigIds == {SENSOR_CONFIGS[i].id : i \in DOMAIN SENSOR_CONFIGS}

\* SENSOR_CONFIGS.find(c => c.id === id)
ConfigOf(id) == SENSOR_CONFIGS[CHOOSE i \in DOMAIN SENSOR_CONFIGS : SENSOR_CONFIGS[i].id = id]

----------------------------------------------------------------------------
(* App.tsx: convertApiDataToReadings *)

\* Number(value.toFixed(1)) on hundredths (inputs never end in 5 hundredths)
ToFixed1(v) == ((v + 5) \div 10) * 10

ChannelValue(config, data) ==
  IF config.type = "METHANE" THEN data.methane
  ELSE IF config.type = "TEMPERATURE" THEN data.temperature
  ELSE data.humidity

RECURSIVE ExpandOne(_, _)
\* locationConfigs.forEach(config => newReadings.push({...})), configs from index i on
ExpandOne(data, i) ==
  IF i > Len(SENSOR_CONFIGS) THEN <<>>
  ELSE LET config == SENSOR_CONFIGS[i]
       IN  (IF config.location = data.location
              THEN << [ id        |-> config.id,
                        type      |-> config.type,
                        value     |-> ToFixed1(ChannelValue(config, data)),
                        unit      |-> config.unit,
                        timestamp |-> data.timestamp,
                        location  |-> data.location,
                        error     |-> data.error ] >>
              ELSE <<>>) \o ExpandOne(data, i + 1)

RECURSIVE convertApiDataToReadings(_)
\* apiData.forEach(...): the entries of the first half, then those of the second
convertApiDataToReadings(apiData) ==
  IF apiData = <<>> THEN <<>>
  ELSE IF Len(apiData) = 1 THEN ExpandOne(apiData[1], 1)
  ELSE LET half == Len(apiData) \div 2
       IN  convertApiDataToReadings(SubSeq(apiData, 1, half))
             \o convertApiDataToReadings(SubSeq(apiData, half + 1, Len(apiData)))

----------------------------------------------------------------------------
(* Array.prototype.sort with a timestamp comparator: stable, so the result *)
(* is the one a merge sort gives                                            *)

RECURSIVE MergeByTs(_, _, _)
\* the stable merge of two sorted runs, a's entries first among equal timestamps:
\* the middle entry of b goes behind the entries of a that need not follow it
MergeByTs(a, b, desc) ==
  IF b = <<>> THEN a
  ELSE IF a = <<>> THEN b
  ELSE LET mid == (Len(b) + 1) \div 2
           x == b[mid]
           k == Cardinality({i \in DOMAIN a :
                               IF desc THEN a[i].timestamp >= x.timestamp
                                       ELSE a[i].timestamp <= x.timestamp})
       IN  MergeByTs(SubSeq(a, 1, k), SubSeq(b, 1, mid - 1), desc)
             \o <<x>>
             \o MergeByTs(SubSeq(a, k + 1, Len(a)), SubSeq(b, mid + 1, Len(b)), desc)

RECURSIVE SortByTs(_, _)
SortByTs(s, desc) ==
  IF Len(s) <= 1 THEN s
  ELSE LET half == Len(s) \div 2
       IN  MergeByTs(SortByTs(SubSeq(s, 1, half), desc),
                     SortByTs(SubSeq(s, half + 1, Len(s)), desc), desc)

SortAscTs(s) == SortByTs(s, FALSE)
SortDescTs(s) == SortByTs(s, TRUE)

----------------------------------------------------------------------------
(* App.tsx: checkThresholds *)

\* config.warningThreshold * 1.1
CriticalLimitTenPercent(w) == (w * 11) \div 10

\* config.warningThreshold * 1.2 (exact for the configured thresholds 26, 60, 200)
CriticalLimit(w) == (w * 12) \div 10

\* `>` in place of `>=` in the METHANE branch
severityExclusive(config, value) ==
  IF value > CriticalLimit(config.warningThreshold) THEN "CRITICAL"
  ELSE IF value > config.warningThreshold THEN "WARNING"
  ELSE "NONE"

severityOf(config, value) ==
  IF config.type = "METHANE"
    THEN IF value > CriticalLimit(config.warningThreshold) THEN "CRITICAL"
         ELSE IF value >= config.warningThreshold THEN "WARNING"
         ELSE "NONE"
    ELSE IF value > config.warningThreshold
           THEN IF value > CriticalLimit(config.warningThreshold) THEN "CRITICAL" ELSE "WARNING"
           ELSE "NONE"

messageOf(config, value, severity) ==
  IF config.type = "METHANE"
    THEN IF severity = "CRITICAL"
           THEN <<"CRITICAL METHANE LEAK at ", config.location, ": ", value, config.unit>>
           ELSE <<"Elevated Methane levels at ", config.location, ": ", value, config.unit>>
    ELSE <<config.type, " High at ", config.location, ": ", value, config.unit>>

\* one entry per reading of the pass, in order
Evaluations(newReadings) ==
  [i \in DOMAIN newReadings |->
     [ id       |-> newReadings[i].id,
       type     |-> ConfigOf(newReadings[i].id).type,
       value    |-> newReadings[i].value,
       severity |-> severityOf(ConfigOf(newReadings[i].id), newReadings[i].value) ]]

\* the alert the forEach body pushes for one reading, if any
AlertFor(reading, t) ==
  LET config == ConfigOf(reading.id)
      severity == severityOf(config, reading.value)
  IN  IF severity # "NONE"
        THEN << [ id           |-> <<reading.id, t>>,
                  sensorId     |-> reading.id,
                  message      |-> messageOf(config, reading.value, severity),
                  timestamp    |-> t,
                  severity     |-> severity,
                  acknowledged |-> FALSE ] >>
        ELSE <<>>

RECURSIVE GeneratedAlerts(_, _)
\* generatedAlerts after the forEach: the alerts of the first half of the
\* readings, then those of the second
GeneratedAlerts(newReadings, t) ==
  IF newReadings = <<>> THEN <<>>
  ELSE IF Len(newReadings) = 1 THEN AlertFor(newReadings[1], t)
  ELSE LET half == Len(newReadings) \div 2
       IN  GeneratedAlerts(SubSeq(newReadings, 1, half), t)
             \o GeneratedAlerts(SubSeq(newReadings, half + 1, Len(newReadings)), t)

\* the notifier block outside the `severity === 'CRITICAL'` test
SirenCallsAnySeverity(newReadings) ==
  Cardinality({i \in DOMAIN newReadings :
                 severityOf(ConfigOf(newReadings[i].id), newReadings[i].value) # "NONE"})

\* playAlertSound() is reached once per reading whose severity is CRITICAL
SirenCalls(newReadings) ==
  Cardinality({i \in DOMAIN newReadings :
                 severityOf(ConfigOf(newReadings[i].id), newReadings[i].value) = "CRITICAL"})

\* the `exists` test without `!a.acknowledged`
RecentAny(uniqueAlerts, newAlert) ==
  \E i \in DOMAIN uniqueAlerts :
     /\ uniqueAlerts[i].sensorId = newAlert.sensorId
     /\ newAlert.timestamp - uniqueAlerts[i].timestamp < DEBOUNCE_MS

\* the `exists` test of the setAlerts updater
RecentUnacked(uniqueAlerts, newAlert) ==
  \E i \in DOMAIN uniqueAlerts :
     /\ uniqueAlerts[i].sensorId = newAlert.sensorId
     /\ ~uniqueAlerts[i].acknowledged
     /\ newAlert.timestamp - uniqueAlerts[i].timestamp < DEBOUNCE_MS

\* every generated alert tested against prev only, not against the alerts
\* pushed earlier in the same pass
AddUniqueAgainstPrev(uniqueAlerts, generated) ==
  uniqueAlerts \o SelectSeq(generated, LAMBDA a : ~RecentUnacked(uniqueAlerts, a))

RECURSIVE AddUnique(_, _)
AddUnique(uniqueAlerts, generated) ==
  IF generated = <<>> THEN uniqueAlerts
  ELSE AddUnique(IF RecentUnacked(uniqueAlerts, Head(generated))
                   THEN uniqueAlerts
                   ELSE Append(uniqueAlerts, Head(generated)),
                 Tail(generated))

\* the setAlerts updater of checkThresholds, applied to prev
LedgerAfter(prev, generated) ==
  IF Len(generated) > 0 THEN SortDescTs(AddUnique(prev, generated)) ELSE prev

----------------------------------------------------------------------------
(* App.tsx: fetchSensorData, the polling effect, dismissAlert *)

RECURSIVE Dedup(_)
\* next.filter(...) with the `seen` set: the first entry of each key stays;
\* after the first half, `seen` holds the keys of that half
Dedup(s) ==
  IF Len(s) <= 1 THEN s
  ELSE LET half == Len(s) \div 2
           first == Dedup(SubSeq(s, 1, half))
           seen == {<<first[i].id, first[i].timestamp>> : i \in DOMAIN first}
       IN  first \o SelectSeq(Dedup(SubSeq(s, half + 1, Len(s))),
                              LAMBDA r : <<r.id, r.timestamp>> \notin seen)

\* slice(0, n) in place of slice(-n): the newest entries are cut off
MergeReadingsKeepsHead(prev, newReadings) ==
  LET sorted == SortAscTs(Dedup(prev \o newReadings))
  IN  SubSeq(sorted, 1, Min(Len(sorted), HISTORY_LIMIT * Len(SENSOR_CONFIGS)))

\* the setReadings updater
MergeReadings(prev, newReadings) ==
  SliceLast(SortAscTs(Dedup(prev \o newReadings)), HISTORY_LIMIT * Len(SENSOR_CONFIGS))

ClientQuery == [location |-> Undefined, since |-> Missing, limit |-> CLIENT_LIMIT]

NoResponse == [ok |-> FALSE, count |-> 0, readings |-> <<>>]

\* setInterval callback (and the call on mount): fetchSensorData starts, suspends at await fetch
TimerTick ==
  /\ now >= nextTick
  /\ Cardinality(fetches) < MaxInflight
  /\ ticks' = ticks + 1
  /\ nextTick' = now + POLL_INTERVAL_MS
  /\ fetches' = fetches \cup {[id |-> ticks + 1, phase |-> "sent", resp |-> NoResponse]}
  /\ UNCHANGED <<now, serverVars, readings, alerts, isConnected, sirens, popups, granted, evalLog>>

\* the GET handler serves a dashboard request
QueryServe(f) ==
  /\ f \in fetches /\ f.phase = "sent"
  /\ fetches' = (fetches \ {f}) \cup {[f EXCEPT !.phase = "responded", !.resp = QueryResult(store, ClientQuery)]}
  /\ UNCHANGED <<now, serverVars,
                 nextTick, ticks, readings, alerts, isConnected, sirens, popups, granted, evalLog>>

\* redis.get rejects in the GET handler: 500
QueryServeError(f) ==
  /\ f \in fetches /\ f.phase = "sent"
  /\ fetches' = (fetches \ {f}) \cup {[f EXCEPT !.phase = "responded", !.resp = NoResponse]}
  /\ UNCHANGED <<now, serverVars, nextTick, ticks, readings, alerts, isConnected,
                 sirens, popups, granted, evalLog>>

\* a catch block that also resets the local list
FetchThrowClears(f) ==
  /\ f \in fetches
  /\ fetches' = fetches \ {f}
  /\ isConnected' = FALSE
  /\ readings' = <<>>
  /\ UNCHANGED <<now, serverVars, nextTick, ticks, alerts, sirens, popups, granted, evalLog>>

\* a catch block that also cancels the interval timer
FetchThrowStopsPolling(f) ==
  /\ f \in fetches
  /\ fetches' = fetches \ {f}
  /\ isConnected' = FALSE
  /\ nextTick' = MaxNow + POLL_INTERVAL_MS
  /\ UNCHANGED <<now, serverVars, ticks, readings, alerts, sirens, popups, granted, evalLog>>

\* fetch() rejects: catch block
FetchThrow(f) ==
  /\ f \in fetches
  /\ fetches' = fetches \ {f}
  /\ isConnected' = FALSE
  /\ UNCHANGED <<now, serverVars, nextTick, ticks, readings, alerts, sirens, popups, granted, evalLog>>

\* `<=` in place of `<` against OFFLINE_THRESHOLD_MS
isRecentInclusive(newReadings, t) ==
  Len(newReadings) > 0 /\ t - newReadings[1].timestamp <= OFFLINE_THRESHOLD_MS

\* latestReading && (now - latestReading.timestamp < OFFLINE_THRESHOLD_MS), with
\* latestReading the first entry of newReadings after the descending sort
isRecentAt(newReadings, t) ==
  Len(newReadings) > 0 /\ t - newReadings[1].timestamp < OFFLINE_THRESHOLD_MS

\* the awaits resolve: the rest of fetchSensorData runs, checkThresholds included
FetchResolve(f) ==
  /\ f \in fetches /\ f.phase = "responded"
  /\ fetches' = fetches \ {f}
  /\ IF f.resp.ok /\ Len(f.resp.readings) > 0
       THEN LET newReadings == SortDescTs(convertApiDataToReadings(f.resp.readings))
                isRecent == isRecentAt(newReadings, now)
                critical == SirenCalls(newReadings)
            IN  /\ isConnected' = isRecent
                /\ readings' = MergeReadings(readings, newReadings)
                /\ evalLog' = Evaluations(newReadings)
                /\ sirens' = sirens + critical
                /\ popups' = IF granted THEN popups + critical ELSE popups
                /\ alerts' = LedgerAfter(alerts, GeneratedAlerts(newReadings, now))
       ELSE /\ isConnected' = FALSE
            /\ UNCHANGED <<readings, evalLog, sirens, popups, alerts>>
  /\ UNCHANGED <<now, serverVars, nextTick, ticks, granted>>

\* filter in place of map: the dismissed alert leaves the ledger
dismissAlertFilter(prev, id) == SelectSeq(prev, LAMBDA a : a.id # id)

\* the match on the channel in place of the id
dismissAlertChannel(prev, id) ==
  [i \in DOMAIN prev |-> IF prev[i].sensorId = id[1] THEN [prev[i] EXCEPT !.acknowledged = TRUE] ELSE prev[i]]

\* prev.map(a => a.id === id ? { ...a, acknowledged: true } : a)
dismissAlertMap(prev, id) ==
  [i \in DOMAIN prev |-> IF prev[i].id = id THEN [prev[i] EXCEPT !.acknowledged = TRUE] ELSE prev[i]]

dismissAlert(id) ==
  /\ alerts' = dismissAlertMap(alerts, id)
  /\ UNCHANGED <<now, serverVars, nextTick, ticks, fetches, readings, isConnected,
                 sirens, popups, granted, evalLog>>

TimeSteps == {5000}

\* the clock advances once the due timer callback has run (a callback may run
\* late, never early)
AdvanceTime(d) ==
  /\ now < nextTick
  /\ now + d <= MaxNow
  /\ now' = now + d
  /\ UNCHANGED <<serverVars, clientVars>>

----------------------------------------------------------------------------
(* components/Dashboard.tsx and components/SensorsView.tsx: status of a       *)
(* channel or ward, rendered from `readings` and the component's clock, which *)
(* a one-second timer sets to Date.now()                                      *)

DISPLAY_OFFLINE_MS == 15000

Max(a, b) == IF a > b THEN a ELSE b

\* readings.filter(r => r.id === id).pop(): <<>> stands for undefined
LatestReading(list, id) ==
  LET idx == {i \in DOMAIN list : list[i].id = id}
  IN  IF idx = {} THEN <<>> ELSE << list[CHOOSE i \in idx : \A j \in idx : j <= i] >>

\* Dashboard: getReading(type) of WardRow, over latestReadings
getReading(location, type, list) ==
  LET k == CHOOSE i \in DOMAIN SENSOR_CONFIGS :
              SENSOR_CONFIGS[i].location = location /\ SENSOR_CONFIGS[i].type = type
  IN  LatestReading(list, SENSOR_CONFIGS[k].id)

\* data?.timestamp || 0
TimestampOrZero(data) == IF data = <<>> THEN 0 ELSE data[1].timestamp

\* Dashboard: what WardRow shows for a ward: offline styling, else error
\* styling, else the methane level's styling
WardRow(location, list, t) ==
  LET methane == getReading(location, "METHANE", list)
      temp == getReading(location, "TEMPERATURE", list)
      hum == getReading(location, "HUMIDITY", list)
      lastTimestamp == Max(TimestampOrZero(methane), Max(TimestampOrZero(temp), TimestampOrZero(hum)))
      isOffline == t - lastTimestamp > DISPLAY_OFFLINE_MS
      hasError == \E data \in {methane, temp, hum} : data # <<>> /\ Truthy(data[1].error)
  IN  IF isOffline THEN "OFFLINE" ELSE IF hasError THEN "ERROR" ELSE "ONLINE"

\* Dashboard, sensorStatus: const recentThreshold = 15000
recentThreshold == 15000

\* the filter callback of onlineMethane and onlineTempHum
CountedOnline(config, list, t) ==
  LET reading == LatestReading(list, config.id)
  IN  reading # <<>> /\ t - reading[1].timestamp < recentThreshold /\ ~Truthy(reading[1].error)

\* the filter callback of errorMethane and errorTempHum
CountedError(config, list, t) ==
  LET reading == LatestReading(list, config.id)
  IN  reading # <<>> /\ t - reading[1].timestamp < recentThreshold /\ Truthy(reading[1].error)

\* Dashboard: the counters of sensorStatus
sensorStatus(list, t) ==
  LET methaneConfigs == {k \in DOMAIN SENSOR_CONFIGS : SENSOR_CONFIGS[k].type = "METHANE"}
      tempHumConfigs == {k \in DOMAIN SENSOR_CONFIGS :
                           SENSOR_CONFIGS[k].type \in {"TEMPERATURE", "HUMIDITY"}}
      locations == {SENSOR_CONFIGS[k].location : k \in DOMAIN SENSOR_CONFIGS}
  IN  [ hasData |-> Len(list) > 0,
        methane |-> [ online |-> Cardinality({k \in methaneConfigs : CountedOnline(SENSOR_CONFIGS[k], list, t)}),
                      error  |-> Cardinality({k \in methaneConfigs : CountedError(SENSOR_CONFIGS[k], list, t)}),
                      total  |-> Cardinality(methaneConfigs) ],
        tempHum |-> [ online |-> Cardinality({k \in tempHumConfigs : CountedOnline(SENSOR_CONFIGS[k], list, t)}),
                      error  |-> Cardinality({k \in tempHumConfigs : CountedError(SENSOR_CONFIGS[k], list, t)}),
                      total  |-> Cardinality(tempHumConfigs) ],
        esp32   |-> [ online |-> Cardinality({loc \in locations :
                                    \E k \in DOMAIN SENSOR_CONFIGS :
                                       /\ SENSOR_CONFIGS[k].location = loc
                                       /\ LatestReading(list, SENSOR_CONFIGS[k].id) # <<>>
                                       /\ t - LatestReading(list, SENSOR_CONFIGS[k].id)[1].timestamp
                                             < recentThreshold}),
                      total  |-> Cardinality(locations) ] ]

\* SensorsView: getStatus(reading, config) at currentTime
getStatus(reading, config, currentTime) ==
  IF reading = <<>> THEN "offline"
  ELSE IF currentTime - reading[1].timestamp > DISPLAY_OFFLINE_MS THEN "offline"
  ELSE IF config.type = "METHANE"
         THEN IF reading[1].value > CriticalLimit(config.warningThreshold) THEN "critical"
              ELSE IF reading[1].value >= config.warningThreshold THEN "warning"
              ELSE "safe"
  ELSE IF reading[1].value > config.warningThreshold THEN "warning"
  ELSE "safe"

----------------------------------------------------------------------------
(* components/AlertsView.tsx *)

HISTORY_SHOWN == 10

\* the comparator of sortedAlerts
compareAlerts(a, b) ==
  IF a.acknowledged # b.acknowledged THEN (IF a.acknowledged THEN 1 ELSE 0 - 1)
  ELSE IF a.severity # b.severity THEN (IF a.severity = "CRITICAL" THEN 0 - 1 ELSE 1)
  ELSE b.timestamp - a.timestamp

\* Array.prototype.sort is stable: x goes before the first element that must follow it
InsertAlert(sorted, x) ==
  LET after == {i \in DOMAIN sorted : compareAlerts(sorted[i], x) > 0}
      pos == IF after = {} THEN Len(sorted) + 1
             ELSE CHOOSE i \in after : \A j \in after : i <= j
  IN  SubSeq(sorted, 1, pos - 1) \o <<x>> \o SubSeq(sorted, pos, Len(sorted))

RECURSIVE SortAlertsFrom(_, _)
SortAlertsFrom(done, rest) ==
  IF rest = <<>> THEN done
  ELSE SortAlertsFrom(InsertAlert(done, Head(rest)), Tail(rest))

\* [...alerts].sort(...)
sortedAlerts(list) == SortAlertsFrom(<<>>, list)

activeAlerts(list) == SelectSeq(sortedAlerts(list), LAMBDA a : ~a.acknowledged)

acknowledgedAlerts(list) == SelectSeq(sortedAlerts(list), LAMBDA a : a.acknowledged)

\* acknowledgedAlerts.slice(0, 10)
historyShown(list) ==
  SubSeq(acknowledgedAlerts(list), 1, Min(HISTORY_SHOWN, Len(acknowledgedAlerts(list))))

----------------------------------------------------------------------------
(* Initial states and specifications *)

\* the i-th of n readings stored earlier for Ward A, 40 ms apart
OldReading(i, n) ==
  [ device_id |-> "esp32-001", location |-> "Ward A", methane |-> 15000,
    temperature |-> 2400, humidity |-> 5000,
    timestamp |-> StartTime - 40 * (n - i + 1), error |-> Undefined ]

Prefill(n) == [i \in 1..n |-> OldReading(i, n)]

Body(dev, loc, m, t, h, ts, err) ==
  [ device_id |-> dev, location |-> loc, methane |-> m, temperature |-> t,
    humidity |-> h, timestamp |-> ts, error |-> err ]

\* request bodies of the ingestion runs
StoreBodies ==
  { Body("esp32-002", "Ward B", 21000, 2400, 5000, 700, Undefined),
    Body(Undefined, Undefined, 15000, 2400, 5000, Missing, Undefined),
    Body("esp32-002", "Ward B", Missing, 2400, 5000, 700, Undefined),
    Body("esp32-001", "Ward A", Missing, Missing, Missing, Missing, "DHT22 read error"),
    Body("esp32-001", "Ward A", Missing, 2400, 5000, Missing, "") }

\* the same and a body whose sender stamps it 0
SeqBodies ==
  StoreBodies \cup { Body("esp32-002", "Ward B", 15000, 2400, 5000, 0, Undefined) }

StoreQueries ==
  { [location |-> Undefined, since |-> Missing, limit |-> QUERY_HARD_CAP],
    [location |-> "Ward B", since |-> Missing, limit |-> Missing],
    [location |-> Undefined, since |-> Missing, limit |-> 0 - 5],
    [location |-> Undefined, since |-> Missing, limit |-> 0],
    [location |-> "Ward A", since |-> StartTime - 3000, limit |-> 2],
    [location |-> Undefined, since |-> Missing, limit |-> QUERY_HARD_CAP + 100] }

\* request bodies of the dashboard runs; the handler stamps them with Date.now()
ClientBodies ==
  { Body("esp32-001", "Ward A", m, 2400, 5000, Missing, Undefined) : m \in {15000, 20000, 24100} }

InitServer(initial) ==
  /\ store = initial
  /\ accepted = initial
  /\ wpc = [w \in Writers |-> "idle"]
  /\ wreading = [w \in Writers |-> OldReading(1, 1)]
  /\ wlist = [w \in Writers |-> <<>>]
  /\ wstatus = [w \in Writers |-> 0]
  /\ posts = 0
  /\ qsnap = <<>>
  /\ qresp = NoResponse

\* the component is mounted: the effect has called fetchSensorData once
InitClient ==
  /\ nextTick = StartTime + POLL_INTERVAL_MS
  /\ ticks = 1
  /\ fetches = {[id |-> 1, phase |-> "sent", resp |-> NoResponse]}
  /\ readings = <<>>
  /\ alerts = <<>>
  /\ isConnected = FALSE
  /\ sirens = 0
  /\ popups = 0
  /\ granted = TRUE
  /\ evalLog = <<>>

\* no dashboard is open
InitNoClient ==
  /\ nextTick = StartTime + POLL_INTERVAL_MS
  /\ ticks = 0
  /\ fetches = {}
  /\ readings = <<>>
  /\ alerts = <<>>
  /\ isConnected = FALSE
  /\ sirens = 0
  /\ popups = 0
  /\ granted = FALSE
  /\ evalLog = <<>>

PostHandler(w, bodies) ==
  \/ \E data \in bodies : PostReceive(w, data)
  \/ PostGet(w)
  \/ PostSet(w)
  \/ PostFail(w)

\* the dashboard, notifications permitted, against a store fed by one sensor
\* node at a time whose Redis writes succeed
Init ==
  /\ now = StartTime
  /\ InitServer(<<>>)
  /\ InitClient

DismissIds == {alerts[i].id : i \in DOMAIN alerts} \cup {<<"wa-meth", 0>>}

Next ==
  \/ \E data \in ClientBodies : PostHandled("w1", data)
  \/ TimerTick
  \/ \E f \in fetches : QueryServe(f)
  \/ \E f \in fetches : QueryServeError(f)
  \/ \E f \in fetches : FetchThrow(f)
  \/ \E f \in fetches : FetchResolve(f)
  \/ \E id \in DismissIds : dismissAlert(id)
  \/ \E d \in TimeSteps : AdvanceTime(d)

Spec == Init /\ [][Next]_vars

\* ingestion and query only; the key may already hold earlier readings
InitStore ==
  /\ now = StartTime
  /\ \E n \in {0, MAX_READINGS - 1} : InitServer(Prefill(n))
  /\ InitNoClient

\* POSTs handled one after another
NextSeq ==
  \/ PostHandler("w1", SeqBodies)
  \/ \E q \in StoreQueries : DirectQuery(q)

SpecSeq == InitStore /\ [][NextSeq]_vars

\* POSTs from several nodes in flight at once
NextStore ==
  \/ \E w \in Writers : PostHandler(w, StoreBodies)
  \/ \E q \in StoreQueries : DirectQuery(q)

SpecStore == InitStore /\ [][NextStore]_vars

\* a reading the POST handler stored `age` ms before the dashboard was opened
StoredAt(loc, m, t, h, age, err) ==
  MakeReading(Body("esp32-001", loc, m, t, h, StartTime - age, err), StartTime)

Stored(m, t, h, age, err) == StoredAt("Ward A", m, t, h, age, err)

\* what the key holds when the dashboard is opened: nothing, or the readings
\* of nodes that have since stopped sending ("Ward D" has no configured channel)
PollStores ==
  { << Stored(24100, 2610, 5000, 5000, Undefined) >>,
    << Stored(24000, 3120, 7200, 5000, Undefined), Stored(24100, 3130, 7210, 0, Undefined) >>,
    << Stored(20000, 2600, 6000, 0, Undefined) >>,
    << Stored(15000, 2601, 5000, 0, Undefined) >>,
    << Stored(24100, 2400, 5000, 16000, Undefined) >>,
    << Stored(Missing, Missing, Missing, 0, "DHT22 read error") >>,
    << Stored(Missing, Missing, Missing, 5001, "DHT22 read error") >>,
    << Stored(15000, 2400, 5000, 16000, Undefined),
       StoredAt("Ward D", 15000, 2400, 5000, 0, Undefined) >>,
    << >> }

InitPoll ==
  /\ now = StartTime
  /\ \E initial \in PollStores : InitServer(initial)
  /\ InitClient

\* the dashboard polling a store no node writes to any more
NextPoll ==
  \/ TimerTick
  \/ \E f \in fetches : QueryServe(f)
  \/ \E f \in fetches : QueryServeError(f)
  \/ \E f \in fetches : FetchThrow(f)
  \/ \E f \in fetches : FetchResolve(f)
  \/ \E id \in DismissIds : dismissAlert(id)
  \/ \E d \in TimeSteps : AdvanceTime(d)

SpecPoll == InitPoll /\ [][NextPoll]_vars

\* the same, with what the event loop guarantees: a due interval callback
\* runs and the clock moves on; no fetch is ever bound to be answered
SpecPollFair ==
  /\ SpecPoll
  /\ WF_vars(TimerTick)
  /\ WF_vars(\E d \in TimeSteps : AdvanceTime(d))

\* request bodies while a long-open dashboard polls: one stamped by the
\* handler, one stamped by a node whose clock is behind
HistoryBodies ==
  { Body("esp32-001", "Ward A", 15000, 2400, 5000, Missing, Undefined),
    Body("esp32-001", "Ward A", 15000, 2400, 5000, 700, Undefined) }

\* the dashboard has been open for a while: earlier ticks have merged every
\* stored reading, the last of them a moment ago
InitHistory ==
  /\ now = StartTime
  /\ \E n \in {3 * HISTORY_LIMIT} :
        /\ InitServer(Prefill(n))
        /\ readings = MergeReadings(<<>>, convertApiDataToReadings(Prefill(n)))
        /\ evalLog = Evaluations(SortDescTs(convertApiDataToReadings(SliceLast(Prefill(n), CLIENT_LIMIT))))
  /\ nextTick = StartTime + POLL_INTERVAL_MS
  /\ ticks = 1
  /\ fetches = {}
  /\ alerts = <<>>
  /\ isConnected = TRUE
  /\ sirens = 0
  /\ popups = 0
  /\ granted = TRUE

NextHistory ==
  \/ \E data \in HistoryBodies : PostHandled("w1", data)
  \/ TimerTick
  \/ \E f \in fetches : QueryServe(f)
  \/ \E f \in fetches : FetchResolve(f)
  \/ \E d \in TimeSteps : AdvanceTime(d)

SpecHistory == InitHistory /\ [][NextHistory]_vars

----------------------------------------------------------------------------
(* Properties *)

CountIn(s, x) == Cardinality({i \in DOMAIN s : s[i] = x})
CountFor(ledger, c) == Cardinality({i \in DOMAIN ledger : ledger[i].sensorId = c})
Keys(list) == {<<list[i].id, list[i].timestamp>> : i \in DOMAIN list}
NoDuplicateKeys(list) ==
  \A i, j \in DOMAIN list :
     (list[i].id = list[j].id /\ list[i].timestamp = list[j].timestamp) => i = j
AllIdle == \A w \in Writers : wpc[w] = "idle"

\* C1: a polling tick that delivers only readings whose (channel id, timestamp)
\* an earlier tick already delivered leaves every such pair exactly once in the
\* local list and adds no alert to the ledger.
C1_RedeliveryIdempotent ==
  [][ \A f \in fetches :
        ( /\ f.phase = "responded"
          /\ f.resp.ok
          /\ Len(f.resp.readings) > 0
          /\ fetches' = fetches \ {f}
          /\ Keys(convertApiDataToReadings(f.resp.readings)) \subseteq Keys(readings)
          /\ FetchResolve(f) )
        => (NoDuplicateKeys(readings') /\ alerts' = alerts) ]_vars

\* C2: when an evaluation pass finds a qualifying reading for a channel, the
\* ledger gains exactly one alert for that channel, except that it gains none
\* while an unacknowledged alert of that channel is less than 10 s old; so of
\* two alerts of one channel less than 10 s apart the older is acknowledged.
C2_Debounce ==
  [][ \A f \in fetches :
        ( /\ f.phase = "responded"
          /\ f.resp.ok
          /\ Len(f.resp.readings) > 0
          /\ fetches' = fetches \ {f}
          /\ FetchResolve(f) ) =>
          /\ \A c \in ConfigIds :
               (\E i \in DOMAIN evalLog' : evalLog'[i].id = c /\ evalLog'[i].severity # "NONE") =>
                  LET held == \E i \in DOMAIN alerts :
                                 /\ alerts[i].sensorId = c
                                 /\ ~alerts[i].acknowledged
                                 /\ now - alerts[i].timestamp < 10000
                  IN  CountFor(alerts', c) = CountFor(alerts, c) + (IF held THEN 0 ELSE 1)
          /\ \A i, j \in DOMAIN alerts' :
               ( /\ i # j
                 /\ alerts'[i].sensorId = alerts'[j].sensorId
                 /\ alerts'[i].timestamp <= alerts'[j].timestamp
                 /\ alerts'[j].timestamp - alerts'[i].timestamp < 10000 )
               => (alerts'[i].acknowledged \/ alerts'[j].acknowledged) ]_vars

\* an acknowledged alert followed inside the window by a second one
C2_Witness ==
  \E i, j \in DOMAIN alerts :
     /\ alerts[i].sensorId = alerts[j].sensorId
     /\ alerts[i].acknowledged /\ ~alerts[j].acknowledged
     /\ alerts[j].timestamp > alerts[i].timestamp
     /\ alerts[j].timestamp - alerts[i].timestamp < 10000

\* C3: with POSTs handled one after another the stored list never exceeds
\* MAX_READINGS and is the contiguous suffix, in arrival order, of all accepted readings.
C3_BoundedSuffix ==
  /\ Len(store) <= MAX_READINGS
  /\ store = SliceLast(accepted, MAX_READINGS)

\* the cap has evicted the oldest reading
C3_Witness ==
  /\ Len(accepted) > MAX_READINGS
  /\ wstatus["w1"] = 200
  /\ store[1] = accepted[Len(accepted) - MAX_READINGS + 1]

\* C4: once the POST handlers have returned, every reading answered with 200
\* that the cap has not evicted is in the store.
C4_NoLostAppend ==
  AllIdle =>
    LET kept == SliceLast(accepted, MAX_READINGS)
    IN  \A i \in DOMAIN kept : CountIn(store, kept[i]) >= CountIn(kept, kept[i])

\* C5: what a GET reads is never longer than the capacity and, once the store
\* is full, never shorter: no appended-but-untrimmed and no trimmed-but-unappended list.
C5_QueryAtomic ==
  [][ qsnap' # qsnap =>
        /\ Len(qsnap') <= MAX_READINGS
        /\ (Len(store) >= MAX_READINGS => Len(qsnap') = MAX_READINGS) ]_vars

\* a GET at capacity while a POST handler sits between its get and its set
C5_Witness ==
  /\ Len(qsnap) = MAX_READINGS
  /\ qsnap = store
  /\ \E w \in Writers : wpc[w] = "set" /\ wlist[w] # store

\* C6: the notifier has been invoked exactly once per CRITICAL alert in the ledger.
C6_NotifyOncePerCriticalAlert ==
  sirens = Cardinality({i \in DOMAIN alerts : alerts[i].severity = "CRITICAL"})

\* C7: the notifier counts change only in a pass that evaluated a reading as
\* CRITICAL, and by the number of such readings.
C7_NotifyOnlyCritical ==
  [][ (sirens' # sirens \/ popups' # popups) =>
        LET crit == {i \in DOMAIN evalLog' : evalLog'[i].severity = "CRITICAL"}
        IN  /\ crit # {}
            /\ sirens' = sirens + Cardinality(crit)
            /\ popups' \in {popups, popups + Cardinality(crit)} ]_vars

\* a pass over a WARNING and a CRITICAL reading rang the siren once
C7_Witness ==
  /\ \E i \in DOMAIN evalLog : evalLog[i].severity = "WARNING"
  /\ \E i \in DOMAIN evalLog : evalLog[i].severity = "CRITICAL"
  /\ sirens = 1

\* C8: at most one fetch is in flight.
C8_SingleFlight == Cardinality(fetches) <= 1

\* C9: every alert of the ledger is still there after any step, and an
\* acknowledged one is still acknowledged.
C9_LedgerMonotonic ==
  [][ alerts' = alerts \/ \A i \in DOMAIN alerts :
        LET a == alerts[i]
            same(l) == {k \in DOMAIN l : l[k].id = a.id /\ l[k].sensorId = a.sensorId
                                          /\ l[k].timestamp = a.timestamp
                                          /\ l[k].severity = a.severity
                                          /\ l[k].message = a.message}
            acked(l) == {k \in same(l) : l[k].acknowledged}
        IN  /\ Cardinality(same(alerts')) >= Cardinality(same(alerts))
            /\ Cardinality(acked(alerts')) >= Cardinality(acked(alerts)) ]_vars

\* an acknowledged alert has survived a later pass that added an alert
C9_Witness ==
  \E i, j \in DOMAIN alerts :
     /\ alerts[i].acknowledged
     /\ alerts[j].timestamp > alerts[i].timestamp

AlertsOf(c) == {i \in DOMAIN alerts : alerts[i].sensorId = c}

\* C11: once a pass has evaluated the stored readings, a non-methane channel
\* whose ingested value equals its warning threshold has no alert, and one
\* whose ingested value is strictly greater (26.01 against 26) has one.
C11_NonMethaneStrict ==
  evalLog # <<>> =>
    \A i \in DOMAIN store : \A k \in DOMAIN SENSOR_CONFIGS :
       LET config == SENSOR_CONFIGS[k]
           v == ChannelValue(config, store[i])
       IN  (config.type # "METHANE" /\ config.location = store[i].location) =>
              /\ (v = config.warningThreshold => AlertsOf(config.id) = {})
              /\ (v > config.warningThreshold => AlertsOf(config.id) # {})

\* C12: every reading a pass evaluated whose value is strictly greater than
\* 1.2 times its channel's warning threshold is CRITICAL, and one whose value
\* is exactly 1.2 times the threshold is WARNING (methane 241 and 240 against 200).
C12_CriticalAbove ==
  \A i \in DOMAIN evalLog :
     LET w == ConfigOf(evalLog[i].id).warningThreshold
     IN  /\ (evalLog[i].value * 10 > w * 12 => evalLog[i].severity = "CRITICAL")
         /\ (evalLog[i].value * 10 = w * 12 => evalLog[i].severity = "WARNING")

\* one pass evaluated, for each channel type, a reading at 1.2 times the
\* threshold and one above it, and the ledger holds the CRITICAL methane alert
C12_Witness ==
  /\ \A type \in {"METHANE", "TEMPERATURE", "HUMIDITY"} :
        /\ \E i \in DOMAIN evalLog :
              /\ evalLog[i].type = type
              /\ evalLog[i].value * 10 = ConfigOf(evalLog[i].id).warningThreshold * 12
        /\ \E i \in DOMAIN evalLog :
              /\ evalLog[i].type = type
              /\ evalLog[i].value * 10 > ConfigOf(evalLog[i].id).warningThreshold * 12
  /\ \E i \in DOMAIN evalLog : evalLog[i].value = 24100 /\ evalLog[i].severity = "CRITICAL"
  /\ \E i \in DOMAIN evalLog : evalLog[i].value = 24000 /\ evalLog[i].severity = "WARNING"
  /\ \E i \in DOMAIN alerts : alerts[i].sensorId = "wa-meth" /\ alerts[i].severity = "CRITICAL"

\* C13: a pass hands the evaluator only the fetched readings that are at most
\* 15 s old, and a fetch that returns only older readings adds no alert.
C13_NoAlertFromStale ==
  [][ \A f \in fetches :
        ( /\ f.phase = "responded"
          /\ f.resp.ok
          /\ Len(f.resp.readings) > 0
          /\ fetches' = fetches \ {f}
          /\ FetchResolve(f) ) =>
          LET fresh == SelectSeq(f.resp.readings, LAMBDA r : now - r.timestamp <= 15000)
          IN  /\ Len(evalLog') = Len(convertApiDataToReadings(fresh))
              /\ (fresh = <<>> => alerts' = alerts) ]_vars

\* C14: the readings of a query response are in ascending timestamp order.
C14_QueryAscending ==
  \A i \in DOMAIN qresp.readings : \A j \in DOMAIN qresp.readings :
     i < j => qresp.readings[i].timestamp <= qresp.readings[j].timestamp

\* C15: a query returns the last min(limit, 500) readings, in store order, of
\* those that match the location and since filters, the limit being the
\* requested one and 100 when none is given; so it never returns more than that.
C15_LimitAfterFilters ==
  [][ \A q \in StoreQueries :
        DirectQuery(q) =>
          LET effective == IF q.limit = Missing THEN 100 ELSE q.limit
              bound == Min(effective, 500)
              matching == SelectSeq(store, LAMBDA r :
                            /\ (Truthy(q.location) => r.location = q.location)
                            /\ (q.since # Missing => r.timestamp > q.since))
          IN  /\ qresp'.count = Len(qresp'.readings)
              /\ qresp'.readings = (IF bound <= 0 THEN <<>> ELSE SliceLast(matching, bound)) ]_vars

\* C16: a POST whose body has no non-empty error string and lacks a numeric
\* methane, temperature or humidity gets 400 and the handler stops, the store
\* untouched; any other body goes on to be stored, its missing measurements as 0.
C16_Validation ==
  [][ /\ \A data \in SeqBodies :
           (wpc["w1"] = "idle" /\ PostReceive("w1", data)) =>
             IF (data.error = Undefined \/ data.error = "")
                /\ (data.methane = Missing \/ data.temperature = Missing \/ data.humidity = Missing)
               THEN /\ wstatus'["w1"] = 400
                    /\ wpc'["w1"] = "idle"
                    /\ store' = store
               ELSE /\ wpc'["w1"] = "get"
                    /\ wreading'["w1"].methane = (IF data.methane = Missing THEN 0 ELSE data.methane)
                    /\ wreading'["w1"].temperature = (IF data.temperature = Missing THEN 0 ELSE data.temperature)
                    /\ wreading'["w1"].humidity = (IF data.humidity = Missing THEN 0 ELSE data.humidity)
                    /\ wreading'["w1"].error = data.error
      /\ (wpc["w1"] = "set" /\ PostSet("w1")) =>
             (wstatus'["w1"] = 200 /\ store'[Len(store')] = wreading["w1"])
      /\ store' # store => (wpc["w1"] = "set" /\ wstatus'["w1"] = 200) ]_vars

\* an error report without measurements is in the store with zeros, and the
\* next POST, lacking a measurement and an error, was answered 400
C16_Witness ==
  /\ wstatus["w1"] = 400
  /\ posts = 2
  /\ Len(store) > 0
  /\ store[Len(store)].error = "DHT22 read error"
  /\ store[Len(store)].methane = 0
  /\ store[Len(store)].temperature = 0
  /\ store[Len(store)].humidity = 0

\* C17: a fetch that throws or is answered with a non-2xx status leaves the
\* local readings and the ledger as they were and sets isConnected to false.
C17_FailurePreservesState ==
  [][ \A f \in fetches :
        ( /\ fetches' = fetches \ {f}
          /\ \/ FetchThrow(f)
             \/ (f.phase = "responded" /\ ~f.resp.ok /\ FetchResolve(f)) ) =>
          /\ readings' = readings
          /\ alerts' = alerts
          /\ isConnected' = FALSE ]_vars

\* a failed tick has switched the indicator off although the latest merged
\* reading is still recent; the readings and alerts of the earlier tick remain
C17_Witness ==
  /\ fetches = {}
  /\ ~isConnected
  /\ alerts # <<>>
  /\ readings # <<>>
  /\ now - readings[Len(readings)].timestamp < OFFLINE_THRESHOLD_MS

\* C18: for every channel that has a reading, with r its latest one: the
\* status shown is OFFLINE exactly when now - r.timestamp > 15000, ERROR
\* exactly when it is not OFFLINE and r carries a non-empty error string, and
\* ONLINE otherwise, in the ward row and in the sensor list alike.
C18_LivenessClassification ==
  \A k \in DOMAIN SENSOR_CONFIGS :
     LET config == SENSOR_CONFIGS[k]
         latest == LatestReading(readings, config.id)
         Classify == IF now - latest[1].timestamp > 15000 THEN "OFFLINE"
                     ELSE IF latest[1].error # Undefined /\ latest[1].error # "" THEN "ERROR"
                     ELSE "ONLINE"
         status == getStatus(latest, config, now)
     IN  latest # <<>> =>
           /\ WardRow(config.location, readings, now) = Classify
           /\ (status = "offline") = (Classify = "OFFLINE")
           /\ (status \in {"safe", "warning", "critical"}) = (Classify = "ONLINE")

\* C19: the active list holds exactly the unacknowledged alerts, every
\* CRITICAL before every WARNING and newer before older within a severity;
\* the history list holds only acknowledged alerts, most recent first, shows
\* at most 10, and no alert of the ledger is in neither list.
C19_AlertViewPartition ==
  LET active == activeAlerts(alerts)
      history == acknowledgedAlerts(alerts)
      shown == historyShown(alerts)
  IN  /\ Len(active) = Cardinality({i \in DOMAIN alerts : ~alerts[i].acknowledged})
      /\ Len(active) + Len(history) = Len(alerts)
      /\ \A i \in DOMAIN active : ~active[i].acknowledged
      /\ \A i \in DOMAIN active : \A j \in DOMAIN active :
            i < j =>
              /\ ~(active[i].severity = "WARNING" /\ active[j].severity = "CRITICAL")
              /\ (active[i].severity = active[j].severity =>
                    active[i].timestamp >= active[j].timestamp)
      /\ \A i \in DOMAIN history : history[i].acknowledged
      /\ Len(shown) <= 10
      /\ \A i \in DOMAIN shown : \A j \in DOMAIN shown :
            i < j => shown[i].timestamp >= shown[j].timestamp

\* C20: a pass evaluates exactly the fetched readings whose (channel id,
\* timestamp) was not in the local list before the tick.
C20_EvaluateOnlyNewlyMerged ==
  [][ \A f \in fetches :
        ( /\ f.phase = "responded"
          /\ f.resp.ok
          /\ Len(f.resp.readings) > 0
          /\ fetches' = fetches \ {f}
          /\ FetchResolve(f) ) =>
          LET merged == SelectSeq(convertApiDataToReadings(f.resp.readings),
                                  LAMBDA r : <<r.id, r.timestamp>> \notin Keys(readings))
          IN  /\ Len(evalLog') = Len(merged)
              /\ \A i \in DOMAIN evalLog' :
                    \E j \in DOMAIN merged :
                       merged[j].id = evalLog'[i].id /\ merged[j].value = evalLog'[i].value ]_vars

\* C21: after a tick that fetched readings the local list has no two entries
\* with the same (channel id, timestamp), is in non-decreasing timestamp order
\* and has at most 900 entries: it holds every entry it had or fetched, except
\* that beyond 900 those with the smallest timestamps are gone.
C21_LocalListBounded ==
  [][ \A f \in fetches :
        ( /\ f.phase = "responded"
          /\ f.resp.ok
          /\ Len(f.resp.readings) > 0
          /\ fetches' = fetches \ {f}
          /\ FetchResolve(f) ) =>
          LET all == Keys(readings) \cup Keys(convertApiDataToReadings(f.resp.readings))
              kept == Keys(readings')
          IN  /\ Cardinality(kept) = Len(readings')
              /\ \A i \in 1..(Len(readings') - 1) :
                    readings'[i].timestamp <= readings'[i + 1].timestamp
              /\ Len(readings') <= 900
              /\ Len(readings') = Min(Cardinality(all), 900)
              /\ kept \subseteq all
              /\ \A key \in all \ kept : key[2] <= readings'[1].timestamp ]_vars

\* the list is full, a tick has merged a reading stored after the dashboard
\* was opened, and the oldest entries have been dropped for it
C21_Witness ==
  /\ Len(readings) = 900
  /\ \E i \in DOMAIN readings : readings[i].timestamp >= StartTime
  /\ readings[1].timestamp > StartTime - 40 * (3 * HISTORY_LIMIT)
  /\ Len(store) > 3 * HISTORY_LIMIT

\* the greatest timestamp of a non-empty list
MaxTimestamp(list) ==
  CHOOSE t \in {list[i].timestamp : i \in DOMAIN list} :
     \A i \in DOMAIN list : list[i].timestamp <= t

\* C22 as stated: after a tick whose fetch was answered 2xx, isConnected is
\* true exactly when the response holds a reading and the one with the
\* greatest timestamp is less than 10 s old.
C22_ConnectedFromLatestFetched ==
  [][ \A f \in fetches :
        ( /\ f.phase = "responded"
          /\ f.resp.ok
          /\ fetches' = fetches \ {f}
          /\ FetchResolve(f) ) =>
          isConnected' = ( /\ Len(f.resp.readings) > 0
                           /\ now - MaxTimestamp(f.resp.readings) < 10000 ) ]_vars

\* C22, amended: isConnected is true exactly when the response holds a reading
\* of a location that has configured channels and the one of those with the
\* greatest timestamp is less than 10 s old.
C22_ConnectedFromLatestChannelReading ==
  [][ \A f \in fetches :
        ( /\ f.phase = "responded"
          /\ f.resp.ok
          /\ fetches' = fetches \ {f}
          /\ FetchResolve(f) ) =>
          LET shown == SelectSeq(f.resp.readings, LAMBDA r :
                         \E k \in DOMAIN SENSOR_CONFIGS : SENSOR_CONFIGS[k].location = r.location)
          IN  isConnected' = ( /\ Len(shown) > 0
                               /\ now - MaxTimestamp(shown) < 10000 ) ]_vars

\* a later tick has found the latest reading 5 s old and the indicator is on
C22_Witness ==
  /\ isConnected
  /\ fetches = {}
  /\ ticks >= 2
  /\ readings # <<>>
  /\ now - readings[Len(readings)].timestamp = 5000

\* C23: an accepted record keeps every value the sender supplied; a missing
\* device_id, location or timestamp takes its default ("esp32-001", "Ward A",
\* the receipt time); a supplied timestamp is never replaced by the receipt
\* time; the record answered is the record stored.
C23_SenderValuesKept ==
  [][ \A data \in SeqBodies :
        ( /\ wpc["w1"] = "idle"
          /\ ValidBody(data)
          /\ PostReceive("w1", data) ) =>
          LET r == wreading'["w1"]
          IN  /\ r.device_id = (IF data.device_id = Undefined THEN "esp32-001" ELSE data.device_id)
              /\ r.location = (IF data.location = Undefined THEN "Ward A" ELSE data.location)
              /\ r.timestamp = (IF data.timestamp = Missing THEN now ELSE data.timestamp)
              /\ data.methane # Missing => r.methane = data.methane
              /\ data.temperature # Missing => r.temperature = data.temperature
              /\ data.humidity # Missing => r.humidity = data.humidity
              /\ r.error = data.error ]_vars

C25_UniqueAlertIds ==
  \A i, j \in DOMAIN alerts : i # j => alerts[i].id # alerts[j].id

\* C26: one tick adds at most one alert per channel to the ledger, however
\* many readings of the channel in the fetched batch qualify, and the alert
\* added is the one of the first qualifying reading in batch order.
C26_OneAlertPerChannelPerTick ==
  [][ \A f \in fetches :
        ( /\ f.phase = "responded"
          /\ f.resp.ok
          /\ Len(f.resp.readings) > 0
          /\ fetches' = fetches \ {f}
          /\ FetchResolve(f) ) =>
          LET batch == SortDescTs(convertApiDataToReadings(f.resp.readings))
          IN  \A c \in ConfigIds :
                LET qualifying == SelectSeq(batch, LAMBDA r :
                                    r.id = c /\ severityOf(ConfigOf(c), r.value) # "NONE")
                IN  /\ CountFor(alerts', c) <= CountFor(alerts, c) + 1
                    /\ CountFor(alerts', c) >= CountFor(alerts, c)
                    /\ CountFor(alerts', c) = CountFor(alerts, c) + 1 =>
                         /\ qualifying # <<>>
                         /\ LET first == AlertFor(qualifying[1], now)[1]
                            IN  CountIn(alerts', first) = CountIn(alerts, first) + 1 ]_vars

\* a batch held a WARNING and a CRITICAL reading of the methane channel, the
\* CRITICAL one first; the ledger holds that one alert of the channel
C26_Witness ==
  /\ fetches = {}
  /\ Cardinality({i \in DOMAIN readings : readings[i].id = "wa-meth"}) = 2
  /\ CountFor(alerts, "wa-meth") = 1
  /\ \E i \in DOMAIN alerts : alerts[i].sensorId = "wa-meth" /\ alerts[i].severity = "CRITICAL"

\* C27: whenever a pass evaluates a reading of a channel as CRITICAL, the
\* ledger after the pass holds an unacknowledged CRITICAL alert of that
\* channel, even if an unacknowledged WARNING alert of the channel was
\* created less than 10 s earlier.
C27_EscalationVisible ==
  [][ \A f \in fetches :
        ( /\ f.phase = "responded"
          /\ f.resp.ok
          /\ Len(f.resp.readings) > 0
          /\ fetches' = fetches \ {f}
          /\ FetchResolve(f) ) =>
          \A i \in DOMAIN evalLog' :
             evalLog'[i].severity = "CRITICAL" =>
                \E j \in DOMAIN alerts' :
                   /\ alerts'[j].sensorId = evalLog'[i].id
                   /\ alerts'[j].severity = "CRITICAL"
                   /\ ~alerts'[j].acknowledged ]_vars

\* C28: a channel that has a reading and whose ward row is not shown OFFLINE
\* is counted online or error by sensorStatus (so the counters of a ward
\* whose rows are all live add up to its channels), and a channel counted
\* neither way belongs to a ward row shown OFFLINE, at every age of the
\* latest reading, 15000 ms included.
C28_LivenessViewsAgree ==
  \A k \in DOMAIN SENSOR_CONFIGS :
     LET config == SENSOR_CONFIGS[k]
         counted == CountedOnline(config, readings, now) \/ CountedError(config, readings, now)
     IN  LatestReading(readings, config.id) # <<>> =>
           /\ WardRow(config.location, readings, now) # "OFFLINE" => counted
           /\ ~counted => WardRow(config.location, readings, now) = "OFFLINE"
           /\ (WardRow("Ward A", readings, now) # "OFFLINE") =>
                 LET st == sensorStatus(readings, now)
                 IN  st.methane.online + st.methane.error + st.tempHum.online + st.tempHum.error >= 3

\* C29: for every channel whose latest reading is fresh, the status the
\* sensors view shows equals the severity the evaluator gives the same value
\* under the same configuration: 'critical' exactly for CRITICAL, 'warning'
\* exactly for WARNING, 'safe' exactly for no alert.
C29_ViewStatusMatchesSeverity ==
  \A k \in DOMAIN SENSOR_CONFIGS :
     LET config == SENSOR_CONFIGS[k]
         latest == LatestReading(readings, config.id)
         status == getStatus(latest, config, now)
         severity == severityOf(config, latest[1].value)
     IN  (latest # <<>> /\ status # "offline") =>
           /\ (status = "critical") = (severity = "CRITICAL")
           /\ (status = "warning") = (severity = "WARNING")
           /\ (status = "safe") = (severity = "NONE")

\* C30: dismissing an id sets the acknowledged flag of the alert with that id
\* and changes nothing else: not another alert, not the order or length of
\* the ledger, not another field of the dismissed alert, not the local
\* readings, the indicator, the timer or the outstanding fetches; at most one
\* alert changes; dismissing an id that no alert has, or whose alerts are all
\* acknowledged, leaves the ledger as it is.
C30_DismissFrame ==
  /\ [] ( \A id \in DismissIds :
            (\A i \in DOMAIN alerts : alerts[i].id = id => alerts[i].acknowledged)
               => dismissAlertMap(alerts, id) = alerts )
  /\ [][ \A id \in DismissIds :
           dismissAlert(id) =>
             /\ DOMAIN alerts' = DOMAIN alerts
             /\ \A i \in DOMAIN alerts :
                   /\ alerts[i].id # id => alerts'[i] = alerts[i]
                   /\ alerts[i].id = id =>
                        /\ alerts'[i].acknowledged
                        /\ [alerts'[i] EXCEPT !.acknowledged = alerts[i].acknowledged] = alerts[i]
             /\ Cardinality({i \in DOMAIN alerts : alerts'[i] # alerts[i]}) <= 1
             /\ readings' = readings
             /\ isConnected' = isConnected
             /\ fetches' = fetches
             /\ nextTick' = nextTick
             /\ sirens' = sirens
             /\ popups' = popups ]_vars

\* one alert has been dismissed while another is still active; the readings
\* and the indicator are as the last tick left them
C30_Witness ==
  /\ \E i, j \in DOMAIN alerts : alerts[i].acknowledged /\ ~alerts[j].acknowledged
  /\ readings # <<>>
  /\ isConnected

====
